---- MODULE Spec2Model ----
(***************************************************************************)
(* Model of falentio/ty: the typed event registry (createTypedEvent), the  *)
(* TypedEventEmitter (on / once / off / emit) of src/src/ty.ts, and the    *)
(* bridge on({ty, event, signal}) of utils.ts.                             *)
(*                                                                         *)
(* JavaScript runs the library single-threaded: a top-level call runs to   *)
(* completion before the next one starts.  emit is modelled in small steps *)
(* over an explicit call stack of emit frames, so that nested emissions    *)
(* (the catch block re-emitting to the error event, a listener body        *)
(* calling emit) are visible; the host's calls (on, once, off, emit, the   *)
(* unsubscribe closures, createTypedEvent) are enabled only when the stack *)
(* is empty.                                                               *)
(***************************************************************************)
EXTENDS Integers, Sequences, FiniteSets, TLC

(***************************************************************************)
(* Bounds of the model.                                                    *)
(***************************************************************************)
MaxMints == 3      \* createTypedEvent calls recorded in one run
MaxRegs == 3       \* registrations held by the listener table at a time
MaxOnce == 1       \* once() wrappers created in one run
MaxHeld == 1       \* unsubscribe closures the host keeps
MaxDepth == 4      \* nested emit frames the call stack can hold
MaxCalls == 3      \* consecutive calls of one unsubscribe closure
MaxDeferred == 2   \* promises returned by listeners in one run
MaxSeen == 2       \* payloads a bridge sequence takes in one run

(***************************************************************************)
(* Values.                                                                 *)
(***************************************************************************)
TypedEventEmitterError == "TypedEventEmitterError"

\* names the host may pass to createTypedEvent: the empty string, names
\* differing only by case, and the reserved one
Names == {"", "a", "A", TypedEventEmitterError}

\* payload types requested at a mint (compile-time only)
PayloadTypes == {"string", "number"}

\* events used with the emitter
Events == {"a", TypedEventEmitterError}

\* "private listeners = new Map()" is an instance field: every
\* new TypedEventEmitter() has a Map of its own.  The arrays of a second
\* emitter instance are kept in the model's Map under keys of their own:
\* Second is the key of the array that the second emitter holds for "a"
Second == "a@2"
Keys == Events \cup {Second}

\* payloads are tuples: <<v>> is the plain value v, <<error, event, payload>>
\* is the error envelope {error, event, payload}
P1 == <<"p">>
P2 == <<"q">>
Payloads == {P1, P2}

\* host functions used as listeners
\*   f1     : returns normally
\*   thr    : () => { throw "boom" }
\*   re     : (v) => { if (v === "p") emitter.emit("a", "q") }
\*   reE    : (v) => { if (v === "p") emitter.emit(TypedEventEmitterError, "q") }
\*   add    : () => { emitter.on("a", g) }
\*   rem    : () => { emitter.off("a", f1) }
\*   remE   : () => { emitter.off(TypedEventEmitterError, f1) }
\*   g      : returns normally; registered by add only
\*   rej    : async () => { await delay; throw "boom" }
\*   bridge : the listener that a sequence made by the bridge on() registers
\*   thr2   : () => { throw "bang" }
Fns == {"f1", "thr", "re"}

\* the host functions that do not call emit, and those that return normally
FnsEmit == {"f1", "thr"}
FnsPlain == {"f1"}

\* the host functions that change the listener table from inside an emission
FnsTable == {"add", "rem", "remE"}

\* the host functions of the nested emissions
FnsNest == {"f1", "thr", "re", "reE"}

\* the host functions of the emissions with asynchronous listeners
FnsAsync == {"f1", "rej"}

\* the host functions of the emissions in which several listeners throw
FnsThrow == {"f1", "thr", "thr2"}

\* the event named in the body of such a function
Target(fn) == IF fn \in {"remE", "reE"} THEN TypedEventEmitterError ELSE "a"

Body(fn) ==
    CASE fn \in {"thr", "thr2"} -> "throw"
      [] fn \in {"re", "reE"} -> "reemit"
      [] fn = "add" -> "adds"
      [] fn = "rej" -> "async"
      [] fn \in {"bridge", "bridge2"} -> "bridge"
      [] fn \in {"rem", "remE"} -> "removes"
      [] OTHER -> "plain"

Thrown(fn) == IF fn = "thr2" THEN "bang" ELSE "boom"

NoEvent == "-"

\* a listener reference: a host function (wid = 0), or the onceListener
\* closure number wid that once(ev, fn) created
UserFn(fn) == [fn |-> fn, wid |-> 0, ev |-> NoEvent]
OnceListener(wid, ev, fn) == [fn |-> fn, wid |-> wid, ev |-> ev]

VARIABLES
    createdEvents,   \* the module-level Set of minted names
    mintLog,         \* the createTypedEvent calls made, with their outcome
    listeners,       \* the emitter's Map: event -> array of listeners
    nextWid,         \* number of the next onceListener closure
    held,            \* unsubscribe closures the host kept
    lastUnsub,       \* the closure called by the last host call, if it was one
    repeats,         \* how many times in a row lastUnsub has been called
    spent,           \* the held closures that have been called at least once
    lastOff,         \* the last host call, if it was off: its arguments, and what it found
    deferred,        \* the promises that listeners returned, in order of creation
    gen,             \* the sequences made by the bridge on(), their signals and consumers
    stack,           \* the call stack of emit frames, outermost first
    status,          \* "idle" | "emitting" | "returned" | "RangeError"
    log,             \* listener invocations of the current host emit call
    emitted,         \* the current host emit call: event, payload, listeners at its start
    onceCalls,       \* per onceListener closure: times its listener was invoked
    cancelledEarly   \* onceListener closures unsubscribed before they ever ran

vars == <<createdEvents, mintLog, listeners, nextWid, held, lastUnsub, repeats, spent,
          lastOff, deferred, gen, stack, status, log, emitted, onceCalls, cancelledEarly>>

registryVars == <<createdEvents, mintLog>>
emitterVars == <<listeners, nextWid, held, lastUnsub, repeats, spent, lastOff, deferred,
                 gen, stack, status, log, emitted, onceCalls, cancelledEarly>>

(***************************************************************************)
(* Registry: createdEvents and createTypedEvent.                           *)
(***************************************************************************)
\* the Set after the module was loaded: TypedEventEmitterError is minted
\* by the module itself
createdEventsAtLoadEmpty == {}

createdEventsAtLoad == {TypedEventEmitterError}

\* a Set that compares names without regard to case
hasIgnoreCase(set, name) ==
    LET Lower(n) == IF n = "A" THEN "a" ELSE n
    IN \E n \in set : Lower(n) = Lower(name)

\* createdEvents.has(name)
has(set, name) == name \in set

\* createTypedEvent without createdEvents.add(name)
createTypedEventNoAdd(name, T) ==
    /\ Len(mintLog) < MaxMints
    /\ mintLog' = Append(mintLog, [name |-> name, type |-> T,
                                   ok |-> ~has(createdEvents, name)])
    /\ UNCHANGED createdEvents
    /\ UNCHANGED emitterVars

createTypedEvent(name, T) ==
    /\ Len(mintLog) < MaxMints
    /\ IF has(createdEvents, name)
       THEN /\ mintLog' = Append(mintLog, [name |-> name, type |-> T, ok |-> FALSE])
            /\ UNCHANGED createdEvents
       ELSE /\ createdEvents' = createdEvents \cup {name}
            /\ mintLog' = Append(mintLog, [name |-> name, type |-> T, ok |-> TRUE])
    /\ UNCHANGED emitterVars

(***************************************************************************)
(* The listener Map.                                                       *)
(***************************************************************************)
\* this.listeners.get(event) || []
get(map, event) == IF event \in DOMAIN map THEN map[event] ELSE <<>>

\* this.listeners.set(event, value)
set(map, event, value) ==
    [e \in (DOMAIN map) \cup {event} |-> IF e = event THEN value ELSE map[e]]

\* listeners.push(listener)
push(ls, listener) == Append(ls, listener)

\* a filter with the comparison inverted: (l) => l === listener
filterKeepsMatching(ls, listener) == SelectSeq(ls, LAMBDA l : l = listener)

\* a removal of the first matching entry only (indexOf + splice)
filterFirst(ls, listener) ==
    IF \E i \in 1..Len(ls) : ls[i] = listener
    THEN LET i == CHOOSE i \in 1..Len(ls) :
                     /\ ls[i] = listener
                     /\ \A j \in 1..(i - 1) : ls[j] # listener
         IN SubSeq(ls, 1, i - 1) \o SubSeq(ls, i + 1, Len(ls))
    ELSE ls

\* a removal by position without the test for "not found":
\* listeners.splice(listeners.indexOf(listener), 1), where splice(-1, 1)
\* removes the last entry
filterSplice(ls, listener) ==
    IF \E i \in 1..Len(ls) : ls[i] = listener
    THEN LET i == CHOOSE i \in 1..Len(ls) :
                     /\ ls[i] = listener
                     /\ \A j \in 1..(i - 1) : ls[j] # listener
         IN SubSeq(ls, 1, i - 1) \o SubSeq(ls, i + 1, Len(ls))
    ELSE SubSeq(ls, 1, Len(ls) - 1)

\* a filter that compares the function a listener was made from, so that an
\* onceListener closure counts as the function it wraps
filterByBody(ls, listener) == SelectSeq(ls, LAMBDA l : l.fn # listener.fn)

\* listeners.filter((l) => l !== listener)
filter(ls, listener) == SelectSeq(ls, LAMBDA l : l # listener)

\* a snapshot walked from the last listener to the first
sliceReversed(ls) == [i \in 1..Len(ls) |-> ls[Len(ls) + 1 - i]]

\* listeners.slice()
slice(ls) == ls

\* the Map after on(event, listener)
onMap(map, event, listener) == set(map, event, push(get(map, event), listener))

\* an off that removes the listener from the array of every event
offMapEverywhere(map, event, listener) ==
    [e \in (DOMAIN map) \cup {event} |-> filter(get(map, e), listener)]

\* the Map after off(event, listener)
offMap(map, event, listener) == set(map, event, filter(get(map, event), listener))

\* number of registrations in the Map
Regs(map) ==
    LET RECURSIVE Sum(_)
        Sum(S) == IF S = {} THEN 0
                  ELSE LET e == CHOOSE x \in S : TRUE
                       IN Len(map[e]) + Sum(S \ {e})
    IN Sum(DOMAIN map)

\* the closure returned by on(event, listener): () => this.off(event, listener)
Unsubscribe(event, listener) == [event |-> event, listener |-> listener]

NoClosure == [event |-> NoEvent, listener |-> UserFn("-")]

Keep(closure, keep) ==
    IF keep /\ Cardinality(held \cup {closure}) <= MaxHeld
    THEN held \cup {closure} ELSE held

\* the record of a host call off(event, listener): whether the event had an
\* entry in the Map and whether the listener was registered for it
OffCall(map, event, listener) ==
    [event |-> event, listener |-> listener,
     used |-> event \in DOMAIN map,
     present |-> \E i \in 1..Len(get(map, event)) : get(map, event)[i] = listener]

NoOff == [event |-> NoEvent, listener |-> UserFn("-"), used |-> FALSE, present |-> FALSE]

Idle == stack = <<>>

\* a host call other than emit forgets the previous emit call's record
Forget ==
    /\ status' = "idle"
    /\ log' = <<>>
    /\ emitted' = [event |-> NoEvent, payload |-> <<>>, snap |-> <<>>]

(***************************************************************************)
(* Host calls on the emitter.                                              *)
(***************************************************************************)
on(event, fn, keep) ==
    /\ Idle
    /\ Regs(listeners) < MaxRegs
    /\ listeners' = onMap(listeners, event, UserFn(fn))
    /\ held' = Keep(Unsubscribe(event, UserFn(fn)), keep)
    /\ lastUnsub' = NoClosure
    /\ repeats' = 0
    /\ lastOff' = NoOff
    /\ Forget
    /\ UNCHANGED <<registryVars, nextWid, spent, deferred, gen, stack, onceCalls,
                   cancelledEarly>>

once(event, fn, keep) ==
    /\ Idle
    /\ Regs(listeners) < MaxRegs
    /\ nextWid <= MaxOnce
    /\ LET onceListener == OnceListener(nextWid, event, fn)
       IN /\ listeners' = onMap(listeners, event, onceListener)
          /\ held' = Keep(Unsubscribe(event, onceListener), keep)
    /\ nextWid' = nextWid + 1
    /\ lastUnsub' = NoClosure
    /\ repeats' = 0
    /\ lastOff' = NoOff
    /\ Forget
    /\ UNCHANGED <<registryVars, spent, deferred, gen, stack, onceCalls, cancelledEarly>>

off(event, fn) ==
    /\ Idle
    /\ listeners' = offMap(listeners, event, UserFn(fn))
    /\ lastUnsub' = NoClosure
    /\ repeats' = 0
    /\ lastOff' = OffCall(listeners, event, UserFn(fn))
    /\ Forget
    /\ UNCHANGED <<registryVars, nextWid, held, spent, deferred, gen, stack, onceCalls,
                   cancelledEarly>>

\* the host calls a closure that on or once returned
unsubscribe(closure) ==
    /\ Idle
    /\ closure \in held
    /\ listeners' = offMap(listeners, closure.event, closure.listener)
    /\ closure = lastUnsub => repeats < MaxCalls
    /\ lastUnsub' = closure
    /\ repeats' = IF closure = lastUnsub THEN repeats + 1 ELSE 1
    /\ spent' = spent \cup {closure}
    /\ lastOff' = NoOff
    /\ cancelledEarly' =
          IF closure.listener.wid # 0 /\ onceCalls[closure.listener.wid] = 0
          THEN cancelledEarly \cup {closure.listener.wid}
          ELSE cancelledEarly
    /\ Forget
    /\ UNCHANGED <<registryVars, nextWid, held, deferred, gen, stack, onceCalls>>

(***************************************************************************)
(* emit.  A frame is one activation of emit: the event and payload, the    *)
(* snapshot listeners.slice() that forEach walks, the index of the next    *)
(* listener, and the place the call was made from: the host ("host"), a    *)
(* listener body running inside the try block ("try"), or the catch block  *)
(* ("catch").                                                              *)
(***************************************************************************)
Frame(event, payload, snap, via) ==
    [event |-> event, payload |-> payload, snap |-> snap, i |-> 1, via |-> via]

\* the payload of the error event in the first version of the emitter
\* (src/unnamed/part_002): the thrown value alone
ErrorEnvelopeErrorOnly(error, event, payload) == <<error>>

\* { error, event, payload }
ErrorEnvelope(error, event, payload) == <<error, event, payload>>

Top == stack[Len(stack)]

\* The call stack is exhausted by a call of emit made from the top frame of
\* stk: the RangeError leaves that frame's emit.  A frame called from a catch
\* block passes it on to its caller; a frame called from a listener body has
\* it caught by the try/catch of its caller, which emits it to the error
\* event; out of the host's frame it reaches the host.
RECURSIVE Unwind(_, _)
Unwind(stk, map) ==
    LET n == Len(stk)
        rest == SubSeq(stk, 1, n - 1)
    IN IF stk[n].via = "host"
       THEN [stack |-> <<>>, status |-> "RangeError"]
       ELSE IF stk[n].via = "catch"
       THEN Unwind(rest, map)
       ELSE [stack |-> Append(rest,
                         Frame(TypedEventEmitterError,
                               ErrorEnvelope("RangeError", rest[n - 1].event,
                                             rest[n - 1].payload),
                               slice(get(map, TypedEventEmitterError)),
                               "catch")),
             status |-> "emitting"]

\* a call this.emit(event, payload) made while the frames stk are active
Enter(stk, map, event, payload, via) ==
    IF Len(stk) < MaxDepth
    THEN [stack |-> Append(stk, Frame(event, payload, slice(get(map, event)), via)),
          status |-> "emitting"]
    ELSE Unwind(stk, map)

\* a try/catch around the whole forEach: the first throw ends the loop
CatchOutsideLoop(stk, map, fr, error) ==
    Enter([stk EXCEPT ![Len(stk)].i = Len(fr.snap) + 1], map,
          TypedEventEmitterError, ErrorEnvelope(error, fr.event, fr.payload),
          "catch")

\* no try/catch: the thrown value leaves emit
CatchNothing(stk, map, fr, error) == [stack |-> <<>>, status |-> "thrown"]

\* a catch block that drops what a listener of the error event throws
CatchGuarded(stk, map, fr, error) ==
    IF fr.event = TypedEventEmitterError
    THEN [stack |-> stk, status |-> "emitting"]
    ELSE Enter(stk, map, TypedEventEmitterError,
               ErrorEnvelope(error, fr.event, fr.payload), "catch")

\* an emit that collects what the listeners throw and emits the envelopes
\* when its forEach is done
CatchAfterLoop(stk, map, fr, error) ==
    [stack |-> <<Frame(TypedEventEmitterError,
                       ErrorEnvelope(error, fr.event, fr.payload),
                       slice(get(map, TypedEventEmitterError)), "catch")>> \o stk,
     status |-> "emitting"]

\* what the catch block does with a value thrown by a listener of frame fr
Catch(stk, map, fr, error) ==
    Enter(stk, map, TypedEventEmitterError,
          ErrorEnvelope(error, fr.event, fr.payload), "catch")

\* history: the host calls emit(event, payload) while call b exists
Noted(b, map, event, payload) ==
    IF b.pc = "none" \/ b.event # event
    THEN b
    ELSE [b EXCEPT !.sent = Append(@,
             [payload |-> payload,
              aborted |-> b.aborted,
              registered |-> \E k \in 1..Len(get(map, event)) : get(map, event)[k] = b.listener,
              waiting |-> b.pc = "awaiting",
              early |-> b.pulls = 0,
              pos |-> IF b.pc = "awaiting" THEN Len(b.received) + 1 ELSE 0])]


\* the host calls emit(event, payload)
emit(event, payload) ==
    /\ Idle
    /\ stack' = <<Frame(event, payload, slice(get(listeners, event)), "host")>>
    /\ status' = "emitting"
    /\ log' = <<>>
    /\ emitted' = [event |-> event, payload |-> payload,
                   snap |-> get(listeners, event)]
    /\ lastUnsub' = NoClosure
    /\ repeats' = 0
    /\ lastOff' = NoOff
    /\ deferred' = [i \in 1..Len(deferred) |-> [deferred[i] EXCEPT !.cur = FALSE]]
    /\ gen' = [g \in DOMAIN gen |-> Noted(gen[g], listeners, event, payload)]
    /\ UNCHANGED <<registryVars, listeners, nextWid, held, spent, onceCalls,
                   cancelledEarly>>

\* an onceListener closure that calls the listener without removing itself
\* first
AfterOffLate(map, l) == map

\* the Map once the listener l has started: an onceListener closure first
\* runs this.off(event, onceListener)
AfterOff(map, l) == IF l.wid # 0 THEN offMap(map, l.ev, l) ELSE map

\* an emit that walks the Map's current array with an index
\* (for (i = 0; i < listeners.length; i++)) instead of a copy
WalkedLive(fr, map) == get(map, fr.event)

\* the array that forEach walks in the activation fr: the copy made by
\* listeners.slice() when emit was called
Walked(fr, map) == fr.snap

\* an emit that waits for the promise a listener returned before it goes on
\* (await listener(payload))
AwaitedWhilePending(results) ==
    \E i \in 1..Len(results) : results[i].cur /\ results[i].state = "pending"

\* the statement is "listener(payload);": the value the listener returns is
\* dropped, and emit never waits for it
Awaited(results) == FALSE

\* the forEach of the top frame can go on
Running == stack # <<>> /\ ~Awaited(deferred)

\* the promise returned by a listener called with the top frame's payload
Promise ==
    [event |-> Top.event, payload |-> Top.payload, state |-> "pending", cur |-> TRUE]

\* forEach calls the listener l of the top frame's snapshot; after is the Map
\* that the call leaves, results the promises that exist after it
Invoked(l, threw, after, results) ==
    /\ listeners' = after
    /\ deferred' = results
    /\ onceCalls' = IF l.wid # 0 THEN [onceCalls EXCEPT ![l.wid] = @ + 1]
                    ELSE onceCalls
    /\ log' = Append(log, [l |-> l, payload |-> Top.payload, event |-> Top.event,
                           depth |-> Len(stack), idx |-> Top.i,
                           snap |-> Top.snap, threw |-> threw,
                           errSnap |-> get(AfterOff(listeners, l),
                                           TypedEventEmitterError),
                           reSnap |-> get(AfterOff(listeners, l), Target(l.fn))])
    /\ UNCHANGED <<registryVars, nextWid, held, lastUnsub, repeats, spent, lastOff,
                   emitted, cancelledEarly>>

\* a call of a listener whose body leaves the Map and the bridge alone
Invoke(l, threw) ==
    /\ Invoked(l, threw, AfterOff(listeners, l), deferred)
    /\ UNCHANGED gen

Advanced == [stack EXCEPT ![Len(stack)].i = @ + 1]

\* the listener returns normally
CallPlain ==
    /\ Running
    /\ Top.i <= Len(Walked(Top, listeners))
    /\ LET l == Walked(Top, listeners)[Top.i]
       IN /\ \/ Body(l.fn) = "plain"
             \/ Body(l.fn) = "reemit" /\ Top.payload # P1
          /\ Invoke(l, FALSE)
          /\ stack' = Advanced
          /\ UNCHANGED status

\* the listener throws: the catch block emits the envelope
CallThrow ==
    /\ Running
    /\ Top.i <= Len(Walked(Top, listeners))
    /\ LET l == Walked(Top, listeners)[Top.i]
           r == Catch(Advanced, AfterOff(listeners, l), Top, Thrown(l.fn))
       IN /\ Body(l.fn) = "throw"
          /\ Invoke(l, TRUE)
          /\ stack' = r.stack
          /\ status' = r.status

\* a listener body whose emit call is put in a queue and run when the
\* emission in progress is done
CallReemitQueued ==
    /\ Running
    /\ Top.i <= Len(Walked(Top, listeners))
    /\ Len(stack) < MaxDepth
    /\ LET l == Walked(Top, listeners)[Top.i]
       IN /\ Body(l.fn) = "reemit" /\ Top.payload = P1
          /\ Invoke(l, FALSE)
          /\ stack' = <<Frame(Target(l.fn), P2,
                              slice(get(AfterOff(listeners, l), Target(l.fn))), "host")>>
                       \o Advanced
          /\ UNCHANGED status

\* the listener body calls emit(event, "q")
CallReemit ==
    /\ Running
    /\ Top.i <= Len(Walked(Top, listeners))
    /\ LET l == Walked(Top, listeners)[Top.i]
           r == Enter(Advanced, AfterOff(listeners, l), Target(l.fn), P2, "try")
       IN /\ Body(l.fn) = "reemit" /\ Top.payload = P1
          /\ Invoke(l, FALSE)
          /\ stack' = r.stack
          /\ status' = r.status

\* the listener body calls on("a", g) and returns
CallAdd ==
    /\ Running
    /\ Top.i <= Len(Walked(Top, listeners))
    /\ Regs(listeners) < MaxRegs
    /\ LET l == Walked(Top, listeners)[Top.i]
       IN /\ Body(l.fn) = "adds"
          /\ Invoked(l, FALSE, onMap(AfterOff(listeners, l), Target(l.fn), UserFn("g")),
                     deferred)
          /\ UNCHANGED gen
          /\ stack' = Advanced
          /\ UNCHANGED status

\* the listener body calls off(event, f1) and returns
CallRemove ==
    /\ Running
    /\ Top.i <= Len(Walked(Top, listeners))
    /\ LET l == Walked(Top, listeners)[Top.i]
       IN /\ Body(l.fn) = "removes"
          /\ Invoked(l, FALSE, offMap(AfterOff(listeners, l), Target(l.fn), UserFn("f1")),
                     deferred)
          /\ UNCHANGED gen
          /\ stack' = Advanced
          /\ UNCHANGED status

\* forEach is done: emit returns to its caller
Return ==
    /\ Running
    /\ Top.i > Len(Walked(Top, listeners))
    /\ stack' = SubSeq(stack, 1, Len(stack) - 1)
    /\ status' = IF Len(stack) = 1 THEN "returned" ELSE status
    /\ UNCHANGED <<registryVars, listeners, nextWid, held, lastUnsub, repeats, spent,
                   lastOff, deferred, gen, log, emitted, onceCalls, cancelledEarly>>

\* the listener is an async function: the call returns a pending promise,
\* which emit drops
CallAsync ==
    /\ Running
    /\ Top.i <= Len(Walked(Top, listeners))
    /\ Len(deferred) < MaxDeferred
    /\ LET l == Walked(Top, listeners)[Top.i]
       IN /\ Body(l.fn) = "async"
          /\ Invoked(l, FALSE, AfterOff(listeners, l), Append(deferred, Promise))
          /\ UNCHANGED gen
          /\ stack' = Advanced
          /\ UNCHANGED status

\* a later task of the event loop: the body of the async listener throws and
\* its promise is rejected.  No reaction was attached to the promise, so
\* nothing of the emitter runs.  The event loop runs a task only when the
\* call stack is empty or the running function waits.
Reject(i) ==
    /\ Idle \/ Awaited(deferred)
    /\ i \in 1..Len(deferred)
    /\ deferred[i].state = "pending"
    /\ deferred' = [deferred EXCEPT ![i].state = "rejected"]
    /\ IF Idle THEN Forget ELSE UNCHANGED <<status, log, emitted>>
    /\ UNCHANGED <<registryVars, listeners, nextWid, held, lastUnsub, repeats, spent,
                   lastOff, gen, stack, onceCalls, cancelledEarly>>

(***************************************************************************)
(* The bridge on({ty, event, signal}) of utils.ts, an async generator.     *)
(* src/src/utils.test.ts holds two versions of it: one that keeps an array *)
(* of resolvers ("resolvers", lines 57-110) and one that keeps a single    *)
(* deferred ("deferred", lines 118-168).  The body of an async generator   *)
(* runs only inside a pull (next()), up to the next yield, await or        *)
(* return; after an await it goes on in a later microtask, when the call   *)
(* stack is empty.  gen holds the generator, the signal it was given and   *)
(* what its consumer has seen.                                             *)
(***************************************************************************)
Variants == {"resolvers", "deferred"}

\* the calls of on({ty, event, signal}) the host makes: each has its own
\* signal, its own consumer and its own closure `listener`
Gens == {"s1", "s2"}

\* the listener (payload) => {...} that the body of call g registers with ty.on
BridgeListenerShared(g) == UserFn("bridge")

BridgeListener(g) == UserFn(IF g = "s1" THEN "bridge" ELSE "bridge2")

\* the call whose body made listener l
GenOf(l) == IF l.fn = "bridge" THEN "s1" ELSE "s2"

\* what the awaited promise was resolved with: nothing yet, {done: true},
\* {value, done: false}, or (deferred version) no value at all
NoResult == [kind |-> "none", value |-> <<>>]
DoneResult == [kind |-> "done", value |-> <<>>]
ValueResult(payload) == [kind |-> "value", value |-> payload]
WakeResult == [kind |-> "wake", value |-> <<>>]

\* before on() is called: only the signal exists
NoGen(g) ==
    [listener |-> BridgeListener(g),
     variant |-> "-", event |-> NoEvent,
     pc |-> "none",          \* "none" | "start" | "yielded" | "awaiting" | "resumable" | "done"
     aborted |-> FALSE,      \* signal.aborted
     atCall |-> FALSE,       \* signal.aborted when on() was called
     observer |-> FALSE,     \* the abort handler is attached to the signal
     buffer |-> <<>>,        \* queue / payloads
     waiters |-> 0,          \* resolvers.length / deferred !== null
     result |-> NoResult,
     pull |-> FALSE,         \* the consumer waits for the result of next()
     received |-> <<>>,      \* the values the consumer got
     ended |-> FALSE,        \* the consumer got {done: true}
     \* history, kept for the properties only
     sent |-> <<>>,          \* the emit calls on the event since on() was called
     pulls |-> 0,            \* the next() calls of the consumer
     abortAt |-> "-",        \* pc when the signal was aborted
     stopped |-> FALSE,      \* the consumer called return()
     resolutions |-> 0]      \* resolve calls on the promise now awaited

\* the generator returns: the pull in progress ends with {done: true}
Finished(b) == [b EXCEPT !.pc = "done", !.pull = FALSE, !.ended = TRUE]

\* yield value
Yielded(b, value) ==
    [b EXCEPT !.pc = "yielded", !.pull = FALSE, !.received = Append(@, value)]

\* await new Promise((resolve) => ...)
Suspended(b) ==
    [b EXCEPT !.pc = "awaiting", !.waiters = @ + 1, !.result = NoResult,
              !.resolutions = 0]

\* a finally block whose cleanup empties the event's array
FinallyClearsEvent(b, map) ==
    [gen |-> Finished([b EXCEPT !.observer = FALSE]), map |-> set(map, b.event, <<>>)]

\* finally { signal.removeEventListener("abort", ...); cleanup() }
FinallyKeepsListener(b, map) ==
    [gen |-> Finished([b EXCEPT !.observer = FALSE]), map |-> map]

Finally(b, map) ==
    [gen |-> Finished([b EXCEPT !.observer = FALSE]),
     map |-> offMap(map, b.event, b.listener)]

\* "resolvers": a loop that awaits a new payload before it looks at the queue
LoopResolversAwaitsFirst(b, map) == [gen |-> Suspended(b), map |-> map]

\* "resolvers": one turn of while (true) {...}, from its head
LoopResolvers(b, map) ==
    IF b.buffer # <<>>
    THEN [gen |-> Yielded([b EXCEPT !.buffer = Tail(@)], Head(b.buffer)), map |-> map]
    ELSE [gen |-> Suspended(b), map |-> map]

\* "resolvers": the body goes on after the await
AfterAwaitResolvers(b, map) ==
    IF b.result.kind = "done"
    THEN Finally([b EXCEPT !.result = NoResult], map)
    ELSE [gen |-> Yielded([b EXCEPT !.result = NoResult], b.result.value), map |-> map]

\* "deferred": while (!signal.aborted) {...}, from its head
LoopDeferredNewestFirst(b, map) ==
    IF b.aborted
    THEN Finally(b, map)
    ELSE IF b.buffer # <<>>
    THEN [gen |-> Yielded([b EXCEPT !.buffer = SubSeq(@, 1, Len(@) - 1)],
                          b.buffer[Len(b.buffer)]),
          map |-> map]
    ELSE [gen |-> [Suspended(b) EXCEPT !.waiters = 1], map |-> map]

LoopDeferred(b, map) ==
    IF b.aborted
    THEN Finally(b, map)
    ELSE IF b.buffer # <<>>
    THEN [gen |-> Yielded([b EXCEPT !.buffer = Tail(@)], Head(b.buffer)), map |-> map]
    ELSE [gen |-> [Suspended(b) EXCEPT !.waiters = 1], map |-> map]

\* the start of the body: the first pull runs it up to the first yield or await
Start(b, map) ==
    IF b.variant = "deferred" /\ b.aborted
    THEN [gen |-> Finished(b), map |-> map]
    ELSE LET c == [b EXCEPT !.observer = TRUE]
             m == onMap(map, b.event, b.listener)
         IN IF b.variant = "resolvers" THEN LoopResolvers(c, m) ELSE LoopDeferred(c, m)

\* the bridge's steps are calls made by the host or the event loop
BridgeStep ==
    /\ Idle
    /\ lastUnsub' = NoClosure
    /\ repeats' = 0
    /\ lastOff' = NoOff
    /\ Forget
    /\ UNCHANGED <<registryVars, nextWid, held, spent, deferred, stack, onceCalls,
                   cancelledEarly>>

\* the host calls on({ty, event, signal}): nothing of the body runs yet
bridge(g, variant, event) ==
    /\ gen[g].pc = "none"
    /\ gen' = [gen EXCEPT ![g] = [@ EXCEPT !.variant = variant, !.event = event,
                                           !.pc = "start", !.atCall = gen[g].aborted]]
    /\ UNCHANGED listeners
    /\ BridgeStep

\* what the abort handler of the "resolvers" version does to the resolvers
AbortedResolversKept(b) == [b EXCEPT !.aborted = TRUE, !.observer = FALSE]

AbortedResolvers(b) ==
    IF b.waiters > 0
    THEN [b EXCEPT !.aborted = TRUE, !.observer = FALSE, !.waiters = 0,
                   !.result = DoneResult, !.resolutions = @ + 1,
                   !.pc = IF @ = "awaiting" THEN "resumable" ELSE @]
    ELSE [b EXCEPT !.aborted = TRUE, !.observer = FALSE]

\* what the abort handler of the "deferred" version does to the deferred
AbortedDeferred(b) ==
    IF b.waiters > 0
    THEN [b EXCEPT !.aborted = TRUE, !.observer = FALSE, !.waiters = 0,
                   !.result = WakeResult, !.resolutions = @ + 1,
                   !.pc = IF @ = "awaiting" THEN "resumable" ELSE @]
    ELSE [b EXCEPT !.aborted = TRUE, !.observer = FALSE]

\* the host calls controller.abort() of the signal of call g: the handler
\* attached with {once: true} runs and is detached
abort(g) ==
    /\ ~gen[g].aborted
    /\ LET b == [gen[g] EXCEPT !.abortAt = gen[g].pc]
       IN IF ~b.observer
          THEN /\ gen' = [gen EXCEPT ![g] = [b EXCEPT !.aborted = TRUE]]
               /\ UNCHANGED listeners
          ELSE IF b.variant = "resolvers"
          THEN /\ listeners' = offMap(listeners, b.event, b.listener)
               /\ gen' = [gen EXCEPT ![g] = AbortedResolvers(b)]
          ELSE /\ UNCHANGED listeners
               /\ gen' = [gen EXCEPT ![g] = AbortedDeferred(b)]
    /\ BridgeStep

\* the consumer of call g calls next()
Pull(g) ==
    /\ gen[g].pc \in {"start", "yielded", "done"}
    /\ ~gen[g].pull
    /\ ~gen[g].ended
    /\ LET b == [gen[g] EXCEPT !.pull = TRUE, !.pulls = @ + 1]
           r == CASE b.pc = "start" -> Start(b, listeners)
                  [] b.pc = "done" -> [gen |-> Finished(b), map |-> listeners]
                  [] b.variant = "resolvers" -> LoopResolvers(b, listeners)
                  [] OTHER -> LoopDeferred(b, listeners)
       IN /\ gen' = [gen EXCEPT ![g] = r.gen]
          /\ listeners' = r.map
    /\ BridgeStep

\* the awaited promise was resolved: the body goes on in a microtask
Resume(g) ==
    /\ gen[g].pc = "resumable"
    /\ LET r == IF gen[g].variant = "resolvers"
                THEN AfterAwaitResolvers(gen[g], listeners)
                ELSE LoopDeferred([gen[g] EXCEPT !.result = NoResult], listeners)
       IN /\ gen' = [gen EXCEPT ![g] = r.gen]
          /\ listeners' = r.map
    /\ BridgeStep

\* the consumer of call g stops between two pulls (break in for await, or
\* return()): a generator that has not started just completes, one that is
\* suspended at a yield runs its finally block
Stop(g) ==
    /\ gen[g].pc \in {"start", "yielded"}
    /\ ~gen[g].pull
    /\ ~gen[g].ended
    /\ LET b == [gen[g] EXCEPT !.stopped = TRUE]
           r == IF b.pc = "start"
                THEN [gen |-> Finished(b), map |-> listeners]
                ELSE Finally(b, listeners)
       IN /\ gen' = [gen EXCEPT ![g] = r.gen]
          /\ listeners' = r.map
    /\ BridgeStep

\* what the bridge's listener does with a payload
ReceivedKeepsWaiter(b, payload) ==
    IF b.variant = "resolvers"
    THEN IF b.waiters > 0
         THEN [b EXCEPT !.result = ValueResult(payload), !.resolutions = @ + 1,
                        !.pc = "resumable"]
         ELSE [b EXCEPT !.buffer = Append(@, payload)]
    ELSE IF b.waiters > 0
         THEN [b EXCEPT !.buffer = Append(@, payload),
                        !.result = WakeResult, !.resolutions = @ + 1,
                        !.pc = "resumable"]
         ELSE [b EXCEPT !.buffer = Append(@, payload)]

Received(b, payload) ==
    IF b.variant = "resolvers"
    THEN IF b.waiters > 0
         THEN [b EXCEPT !.waiters = @ - 1, !.result = ValueResult(payload),
                        !.resolutions = @ + 1, !.pc = "resumable"]
         ELSE [b EXCEPT !.buffer = Append(@, payload)]
    ELSE IF b.waiters > 0
         THEN [b EXCEPT !.buffer = Append(@, payload), !.waiters = 0,
                        !.result = WakeResult, !.resolutions = @ + 1,
                        !.pc = "resumable"]
         ELSE [b EXCEPT !.buffer = Append(@, payload)]

\* forEach calls the listener of a bridge
CallBridge ==
    /\ Running
    /\ Top.i <= Len(Walked(Top, listeners))
    /\ LET l == Walked(Top, listeners)[Top.i]
       IN /\ Body(l.fn) = "bridge"
          /\ Invoked(l, FALSE, AfterOff(listeners, l), deferred)
          /\ gen' = [gen EXCEPT ![GenOf(l)] = Received(@, Top.payload)]
          /\ stack' = Advanced
          /\ UNCHANGED status

\* the host has emit calls left for the event (a bound of the model)
Budget(event) ==
    \A g \in Gens : gen[g].pc # "none" /\ gen[g].event = event =>
                        Len(gen[g].sent) < MaxSeen

(***************************************************************************)
(* Specifications.                                                         *)
(***************************************************************************)
Init ==
    /\ createdEvents = createdEventsAtLoad
    /\ mintLog = <<>>
    /\ listeners = << >>
    /\ nextWid = 1
    /\ held = {}
    /\ lastUnsub = NoClosure
    /\ repeats = 0
    /\ spent = {}
    /\ lastOff = NoOff
    /\ deferred = <<>>
    /\ gen = [g \in Gens |-> NoGen(g)]
    /\ stack = <<>>
    /\ status = "idle"
    /\ log = <<>>
    /\ emitted = [event |-> NoEvent, payload |-> <<>>, snap |-> <<>>]
    /\ onceCalls = [w \in 1..MaxOnce |-> 0]
    /\ cancelledEarly = {}

\* the emitter, with host functions that return, throw or emit re-entrantly
Next ==
    \/ \E event \in Events, fn \in Fns, keep \in BOOLEAN : on(event, fn, keep)
    \/ \E event \in Events, fn \in Fns, keep \in BOOLEAN : once(event, fn, keep)
    \/ \E event \in Events, fn \in Fns : off(event, fn)
    \/ \E closure \in held : unsubscribe(closure)
    \/ \E event \in Events, payload \in Payloads : emit(event, payload)
    \/ CallPlain
    \/ CallThrow
    \/ CallReemit
    \/ Return

Spec == Init /\ [][Next]_vars

\* on, off and emit, with host functions that return or throw
NextEmit ==
    \/ \E event \in Events, fn \in FnsEmit : on(event, fn, FALSE)
    \/ \E event \in Events, fn \in FnsEmit : off(event, fn)
    \/ \E event \in Events, payload \in Payloads : emit(event, payload)
    \/ CallPlain
    \/ CallThrow
    \/ Return

SpecEmit == Init /\ [][NextEmit]_vars

\* on, once, the closures they return, and emit; on with host functions that
\* return or throw, once with one that returns
NextClosures ==
    \/ \E event \in Events, fn \in FnsEmit, keep \in BOOLEAN : on(event, fn, keep)
    \/ \E event \in Events, fn \in FnsPlain, keep \in BOOLEAN : once(event, fn, keep)
    \/ \E closure \in held : unsubscribe(closure)
    \/ \E event \in Events : emit(event, P1)
    \/ CallPlain
    \/ CallThrow
    \/ Return

SpecClosures == Init /\ [][NextClosures]_vars

\* on, off and emit, with host functions that return or throw and host
\* functions that call on or off for the event they are registered on
NextTable ==
    \/ \E event \in Events, fn \in FnsEmit : on(event, fn, FALSE)
    \/ \E fn \in FnsTable : on(Target(fn), fn, FALSE)
    \/ \E fn \in FnsTable : off(Target(fn), fn)
    \/ \E event \in Events : emit(event, P1)
    \/ CallPlain
    \/ CallThrow
    \/ CallAdd
    \/ CallRemove
    \/ Return

SpecTable == Init /\ [][NextTable]_vars

\* on and emit, with host functions that return and async functions whose
\* promise is rejected later
NextAsync ==
    \/ \E event \in Events, fn \in FnsAsync : on(event, fn, FALSE)
    \/ \E event \in Events, payload \in Payloads : emit(event, payload)
    \/ CallPlain
    \/ CallAsync
    \/ \E i \in 1..MaxDeferred : Reject(i)
    \/ Return

SpecAsync == Init /\ [][NextAsync]_vars

\* on and emit, with host functions that return, throw, or emit the same or
\* the other event from their body
NextNest ==
    \/ \E event \in Events, fn \in FnsNest : on(event, fn, FALSE)
    \/ \E event \in Events : emit(event, P1)
    \/ CallPlain
    \/ CallThrow
    \/ CallReemit
    \/ Return

SpecNest == Init /\ [][NextNest]_vars

\* the bridge: one sequence, its signal, its consumer, and the host's emit
\* calls and other listeners
NextBridge ==
    \/ \E variant \in Variants, event \in Events : bridge("s1", variant, event)
    \/ abort("s1")
    \/ Pull("s1")
    \/ Resume("s1")
    \/ Stop("s1")
    \/ \E event \in Events : on(event, "f1", FALSE)
    \/ \E event \in Events, payload \in Payloads : Budget(event) /\ emit(event, payload)
    \/ CallPlain
    \/ CallBridge
    \/ Return

SpecBridge == Init /\ [][NextBridge]_vars

\* one sequence alone: its signal, its consumer (next() and return()) and the
\* host's emit calls; an emit call in progress runs on to its end, every
\* synchronous run of the host ends, and the microtask that resumes the body
\* then runs
NextPulls ==
    \/ \E variant \in Variants, event \in Events : bridge("s1", variant, event)
    \/ abort("s1")
    \/ Pull("s1")
    \/ Resume("s1")
    \/ Stop("s1")
    \/ \E event \in Events, payload \in Payloads : Budget(event) /\ emit(event, payload)
    \/ CallBridge
    \/ Return

SpecPulls ==
    /\ Init
    /\ [][NextPulls]_vars
    /\ WF_vars(CallBridge \/ Return)
    /\ SF_vars(Resume("s1"))

\* the host emits two payloads in turn, so that consecutive payloads differ
NextPayload == IF Len(gen["s1"].sent) % 2 = 0 THEN P1 ELSE P2

\* two sequences made for the same event of one emitter by the same version
\* of on(), each with its own signal and consumer (the one called "s1" is
\* made first)
NextTwo ==
    \/ \E g \in Gens, variant \in Variants :
          /\ g = "s2" => gen["s1"].variant = variant
          /\ bridge(g, variant, "a")
    \/ \E g \in Gens : abort(g)
    \/ \E g \in Gens : Pull(g)
    \/ \E g \in Gens : Resume(g)
    \/ \E g \in Gens : Stop(g)
    \/ Budget("a") /\ emit("a", NextPayload)
    \/ CallBridge
    \/ Return

SpecTwo == Init /\ [][NextTwo]_vars

\* once with host functions that return, throw, or emit from their body,
\* beside listeners that return
NextOnce ==
    \/ \E event \in Events, fn \in Fns : once(event, fn, FALSE)
    \/ \E event \in Events : on(event, "f1", FALSE)
    \/ \E event \in Events : emit(event, P1)
    \/ CallPlain
    \/ CallThrow
    \/ CallReemit
    \/ Return

SpecOnce == Init /\ [][NextOnce]_vars

\* on and emit, with host functions that return and two that throw
\* different values
NextThrow ==
    \/ \E event \in Events, fn \in FnsThrow : on(event, fn, FALSE)
    \/ \E event \in Events : emit(event, P1)
    \/ CallPlain
    \/ CallThrow
    \/ Return

SpecThrow == Init /\ [][NextThrow]_vars

\* one sequence beside listeners that the host registers on both events
NextBeside ==
    \/ \E variant \in Variants, event \in Events : bridge("s1", variant, event)
    \/ abort("s1")
    \/ Pull("s1")
    \/ Resume("s1")
    \/ Stop("s1")
    \/ \E event \in Events : on(event, "f1", FALSE)
    \/ \E event \in Events : Budget(event) /\ emit(event, NextPayload)
    \/ CallPlain
    \/ CallBridge
    \/ Return

SpecBeside == Init /\ [][NextBeside]_vars

\* once, on and off with one host function that returns, the closures that
\* once returns, and emit
NextOnceOff ==
    \/ \E event \in Events, keep \in BOOLEAN : once(event, "f1", keep)
    \/ \E event \in Events : on(event, "f1", FALSE)
    \/ \E event \in Events : off(event, "f1")
    \/ \E closure \in held : unsubscribe(closure)
    \/ \E event \in Events : emit(event, P1)
    \/ CallPlain
    \/ Return

SpecOnceOff == Init /\ [][NextOnceOff]_vars

\* two emitter instances: the first with host functions that return or throw
\* and with once, the second with a host function that returns
NextApart ==
    \/ \E event \in Keys, fn \in FnsEmit :
          (event = Second => fn = "f1") /\ on(event, fn, FALSE)
    \/ \E event \in Events : once(event, "f1", FALSE)
    \/ \E event \in Keys : off(event, "f1")
    \/ \E event \in Keys : emit(event, P1)
    \/ CallPlain
    \/ CallThrow
    \/ Return

SpecApart == Init /\ [][NextApart]_vars

\* the emissions of SpecThrow, where an activation of emit that has begun
\* goes on: forEach and the listeners it calls are synchronous code
SpecFinish ==
    Init /\ [][NextThrow]_vars /\ WF_vars(CallPlain \/ CallThrow \/ Return)

\* the registry
NextRegistry ==
    \E name \in Names, T \in PayloadTypes : createTypedEvent(name, T)

SpecRegistry == Init /\ [][NextRegistry]_vars

(***************************************************************************)
(* Properties of the registry (checked under SpecRegistry).                *)
(***************************************************************************)
\* names minted before the k-th createTypedEvent call of the run
MintedBefore(k) ==
    createdEventsAtLoad \cup {mintLog[j].name : j \in 1..(k - 1)}

\* C1: a createTypedEvent(n) call succeeds exactly when n was not minted
\* before it, whatever payload type is requested and also for the empty name:
\* the first mint of a name succeeds, every later one fails.
MintUniqueness ==
    \A k \in 1..Len(mintLog) :
        mintLog[k].ok <=> mintLog[k].name \notin MintedBefore(k)

MintUniquenessWitness ==
    /\ Len(mintLog) = 3
    /\ mintLog[1].name = "" /\ mintLog[1].ok
    /\ mintLog[2].name = "" /\ ~mintLog[2].ok
    /\ mintLog[2].type # mintLog[1].type
    /\ mintLog[3].name = "A" /\ mintLog[3].ok

\* C2: the set of minted names only grows: every name minted successfully
\* stays recorded, a successful mint adds exactly its name and a failed mint
\* leaves the set as it was.
AppendOnly ==
    /\ [](\A k \in 1..Len(mintLog) : mintLog[k].ok => mintLog[k].name \in createdEvents)
    /\ [][/\ createdEvents \subseteq createdEvents'
          /\ Len(mintLog') = Len(mintLog) + 1 =>
                LET call == mintLog'[Len(mintLog')]
                IN IF call.ok
                   THEN createdEvents' = createdEvents \cup {call.name}
                   ELSE createdEvents' = createdEvents]_vars

AppendOnlyWitness ==
    /\ Len(mintLog) = 3
    /\ mintLog[1].ok /\ ~mintLog[2].ok /\ mintLog[3].ok
    /\ createdEvents = createdEventsAtLoad \cup {mintLog[1].name, mintLog[3].name}

\* C3: the reserved error event is minted when the module is loaded: its name
\* is recorded as taken in every state and every createTypedEvent call with
\* that name fails.
ErrorEventPreMinted ==
    /\ TypedEventEmitterError \in createdEvents
    /\ \A k \in 1..Len(mintLog) :
          mintLog[k].name = TypedEventEmitterError => ~mintLog[k].ok

ErrorEventPreMintedWitness ==
    /\ Len(mintLog) >= 1
    /\ mintLog[1].name = TypedEventEmitterError
    /\ ~mintLog[1].ok

(***************************************************************************)
(* Properties of emit (checked under SpecEmit).                            *)
(***************************************************************************)
\* the invocations made by the host's emit call itself, in order
TopCalls == SelectSeq(log, LAMBDA c : c.depth = 1)

\* the first invocation after the k-th that does not belong to an emission
\* nested in the activation of the k-th (Len(log) + 1 if there is none)
EndOfNested(k) ==
    LET later == {m \in (k + 1)..Len(log) : log[m].depth <= log[k].depth}
    IN IF later = {} THEN Len(log) + 1
       ELSE CHOOSE m \in later : \A x \in later : m <= x

\* the invocations of the emission that the k-th invocation started
NestedCalls(k) ==
    SelectSeq(SubSeq(log, k + 1, EndOfNested(k) - 1),
              LAMBDA c : c.depth = log[k].depth + 1)

\* the host's emit call has ended, by returning or with the RangeError of an
\* exhausted call stack
Ended == stack = <<>> /\ status \in {"returned", "RangeError"}

\* the host's emit call has invoked the first n registrations of its event,
\* each once, in registration order, with the emitted payload
InvokedInOrder(n) ==
    /\ Len(TopCalls) = n
    /\ \A k \in 1..n :
          /\ TopCalls[k].l = emitted.snap[k]
          /\ TopCalls[k].payload = emitted.payload

\* C4 as claimed: once emit(event, p) has ended, each registration of the
\* event has been invoked exactly once with p, in registration order.
AllInvokedInOrder ==
    Ended => InvokedInOrder(Len(emitted.snap))

\* C4 (amended): when emit(event, p) returns, each registration of the event
\* has been invoked by it exactly once with p, in registration order, a
\* function registered k times being invoked k times; a call that ends with
\* the RangeError of an exhausted stack has invoked a prefix of them, in
\* that order; a new registration goes to the end of the event's sequence.
InvocationOrder ==
    /\ [](status = "returned" => InvokedInOrder(Len(emitted.snap)))
    /\ [](status = "RangeError" =>
             Len(TopCalls) <= Len(emitted.snap) /\ InvokedInOrder(Len(TopCalls)))
    /\ [][\A event \in Events :
             Len(get(listeners', event)) > Len(get(listeners, event)) =>
                SubSeq(get(listeners', event), 1, Len(get(listeners, event)))
                   = get(listeners, event)]_vars

InvocationOrderWitness ==
    /\ status = "returned"
    /\ emitted.event = "a"
    /\ emitted.snap = <<UserFn("f1"), UserFn("thr"), UserFn("f1")>>
    /\ Len(TopCalls) = 3

\* every listener that follows the k-th invocation's listener in its snapshot
\* is invoked after it by the same activation of emit
LaterListenersInvoked(k) ==
    \A j \in (log[k].idx + 1)..Len(log[k].snap) :
       \E m \in (k + 1)..Len(log) :
          /\ log[m].depth = log[k].depth
          /\ log[m].idx = j
          /\ log[m].l = log[k].snap[j]
          /\ \A x \in (k + 1)..m : log[x].depth >= log[k].depth

\* C5 as claimed: once an emit call has ended, every listener that followed
\* a throwing listener in its snapshot has been invoked by it.
ThrowIsolationAlways ==
    Ended => \A k \in 1..Len(log) : log[k].threw => LaterListenersInvoked(k)

\* C5 (amended): when a listener throws during an emit call that returns,
\* every later listener of the same snapshot is invoked after it by the same
\* activation of emit.
ThrowIsolation ==
    status = "returned" =>
       \A k \in 1..Len(log) : log[k].threw => LaterListenersInvoked(k)

ThrowIsolationWitness ==
    /\ status = "returned"
    /\ emitted.snap = <<UserFn("thr"), UserFn("f1"), UserFn("thr")>>
    /\ Len(TopCalls) = 3
    /\ log[1].threw

\* the throw of the k-th invocation was delivered to every listener that was
\* registered on the error event at that moment, once each and in order,
\* with the envelope {error, event, payload}
Funneled(k) ==
    /\ Len(NestedCalls(k)) = Len(log[k].errSnap)
    /\ \A j \in 1..Len(NestedCalls(k)) :
          /\ NestedCalls(k)[j].l = log[k].errSnap[j]
          /\ NestedCalls(k)[j].event = TypedEventEmitterError
          /\ NestedCalls(k)[j].payload
                = <<Thrown(log[k].l.fn), log[k].event, log[k].payload>>

\* C6 as claimed: once an emit call has ended, every throw of a listener has
\* been delivered to each listener of the error event exactly once.
ErrorFunnelingAlways ==
    Ended => \A k \in 1..Len(log) : log[k].threw => Funneled(k)

\* C6 (amended): when a listener throws the value e during emit(eventId,
\* payload) and the host's emit call returns, every listener registered on the
\* error event at the moment of the throw has been invoked exactly once for
\* it, in order, with the envelope {error: e, event: eventId, payload: payload}.
ErrorFunneling ==
    status = "returned" =>
       \A k \in 1..Len(log) : log[k].threw => Funneled(k)

ErrorFunnelingWitness ==
    /\ status = "returned"
    /\ emitted.event = "a"
    /\ emitted.payload = P2
    /\ Len(log) = 3
    /\ log[1].threw
    /\ log[1].errSnap = <<UserFn("f1"), UserFn("f1")>>
    /\ log[3].payload = <<"boom", "a", P2>>

\* C7 as claimed: whatever the listeners do, emit returns normally to its
\* caller.
EmitAlwaysReturnsNormally ==
    stack = <<>> => status \in {"idle", "returned"}

\* C7 (amended): a value thrown by a listener never reaches the caller of
\* emit; emit returns normally unless a listener of the error event itself
\* throws, and then the caller gets the RangeError of the exhausted stack.
EmitReturnsUnlessErrorListenerThrows ==
    stack = <<>> =>
       \/ status \in {"idle", "returned"}
       \/ /\ status = "RangeError"
          /\ \E k \in 1..Len(log) :
                log[k].threw /\ log[k].event = TypedEventEmitterError

EmitReturnsWitness ==
    /\ status = "returned"
    /\ emitted.event = "a"
    /\ \E k \in 1..Len(log) : log[k].threw /\ log[k].depth = 1
    /\ \E k \in 1..Len(log) : log[k].event = TypedEventEmitterError

\* a throw of the host's emit call was funneled while the throwing function
\* thr was registered on the error event
FunneledToThrowing ==
    \E k \in 1..Len(log) :
        /\ log[k].threw
        /\ \E j \in 1..Len(log[k].errSnap) : log[k].errSnap[j] = UserFn("thr")

\* C18 (checked under SpecEmit): once a listener failure is funneled while a
\* listener that always throws is registered on the error event, the emit
\* call never returns normally: the error emissions nest one level deeper
\* with every throw, up to the capacity of the call stack, and the call ends
\* with the RangeError of the exhausted stack.
ErrorListenerRecursion ==
    /\ FunneledToThrowing => status \in {"emitting", "RangeError"}
    /\ (FunneledToThrowing /\ stack = <<>>) =>
          /\ status = "RangeError"
          /\ \A d \in 2..MaxDepth :
                \E m \in 1..Len(log) :
                   /\ log[m].depth = d
                   /\ log[m].event = TypedEventEmitterError
                   /\ log[m].threw

\* emit("a") ended with the RangeError after thr, registered on "a" and on
\* the error event, threw at every level of the stack
ErrorListenerRecursionWitness ==
    /\ status = "RangeError"
    /\ emitted.event = "a"
    /\ emitted.snap = <<UserFn("thr")>>
    /\ get(listeners, TypedEventEmitterError) = <<UserFn("thr")>>
    /\ Len(log) = MaxDepth
    /\ log[MaxDepth].depth = MaxDepth

\* the envelope the catch block makes for the throw of the k-th invocation
EnvelopeOf(k) == ErrorEnvelope(Thrown(log[k].l.fn), log[k].event, log[k].payload)

\* C33 (checked under SpecThrow): when an activation of emit goes on after a
\* listener threw (it invokes the next listener of its snapshot, or it
\* returns), the envelope of that throw has been delivered to every listener
\* registered on the error event at the moment of the throw, once each and
\* in order.  So the listeners of the error event get the envelopes of the
\* listeners that throw during one emit call in the order of those
\* listeners, each envelope ahead of the invocation of the next listener.
EnvelopesBeforeNextListener ==
    \A k \in 1..Len(log) :
       (log[k].threw /\ (EndOfNested(k) <= Len(log) \/ status = "returned")) =>
          /\ Funneled(k)
          /\ \A j \in 1..Len(NestedCalls(k)) : NestedCalls(k)[j].payload = EnvelopeOf(k)

\* on(error event, f1), on("a", thr), on("a", thr2), emit("a", "p"): f1 got
\* the envelope of thr before thr2 was invoked, and then the envelope of thr2
EnvelopesBeforeNextListenerWitness ==
    /\ status = "returned"
    /\ emitted.event = "a"
    /\ emitted.snap = <<UserFn("thr"), UserFn("thr2")>>
    /\ Len(log) = 4
    /\ log[1].l = UserFn("thr") /\ log[1].depth = 1
    /\ log[2].l = UserFn("f1") /\ log[2].depth = 2
    /\ log[2].payload = <<"boom", "a", P1>>
    /\ log[3].l = UserFn("thr2") /\ log[3].depth = 1
    /\ log[4].l = UserFn("f1") /\ log[4].depth = 2
    /\ log[4].payload = <<"bang", "a", P1>>

(***************************************************************************)
(* Properties of once and of the unsubscribe closures.                     *)
(***************************************************************************)
\* C8 as claimed (checked under Spec): the listener given to once is invoked
\* at most once, also when a listener of the same event emits the event
\* again while the first emission is in progress.
OnceInvokedAtMostOnce ==
    \A w \in 1..MaxOnce : onceCalls[w] <= 1

\* C9 (checked under SpecClosures): a listener whose once closure was called
\* before the event was emitted is never invoked; calling the closure after
\* the listener has run changes no listener sequence.
OnceUnsubscribe ==
    /\ [](\A w \in cancelledEarly : onceCalls[w] = 0)
    /\ [][(/\ lastUnsub' # NoClosure
           /\ lastUnsub'.listener.wid # 0
           /\ onceCalls[lastUnsub'.listener.wid] >= 1)
          => \A event \in Events : get(listeners', event) = get(listeners, event)]_vars

\* a once closure was called before the event fired, and the event was
\* emitted afterwards to another listener
OnceUnsubscribeWitness ==
    /\ cancelledEarly = {1}
    /\ onceCalls[1] = 0
    /\ status = "returned"
    /\ emitted.event = "a"
    /\ Len(log) >= 1
    /\ \E c \in held : c.listener.wid = 1 /\ c.event = "a"

\* C10 (checked under SpecClosures): a further call of the unsubscribe
\* closure that was called last leaves the listener Map as the first call
\* left it.
UnsubscribeIdempotent ==
    [][(lastUnsub # NoClosure /\ lastUnsub' = lastUnsub /\ repeats' = repeats + 1)
       => listeners' = listeners]_vars

\* the closure of on("a", f1) has been called three times in a row while
\* another listener stays registered
UnsubscribeIdempotentWitness ==
    /\ repeats = 3
    /\ lastUnsub = Unsubscribe("a", UserFn("f1"))
    /\ get(listeners, "a") = <<UserFn("thr")>>

\* C11 as claimed (checked under SpecClosures): a closure that has already
\* been called removes nothing when it is called again, also when its
\* listener was registered again for the event in the meantime.
SpentClosureRemovesNothing ==
    [][(lastUnsub' # NoClosure /\ lastUnsub' \in spent)
       => \A event \in Events : get(listeners', event) = get(listeners, event)]_vars

(***************************************************************************)
(* Nested emissions (checked under SpecNest).                              *)
(***************************************************************************)
\* the body of the k-th invocation called emit
Reemitted(k) == Body(log[k].l.fn) = "reemit" /\ log[k].payload = P1

\* the invocations made by the emission that the body of the k-th invocation
\* started (the catch block of the k-th can start another one, for the
\* RangeError of an exhausted stack: its payload is an envelope)
InnerCalls(k) == SelectSeq(NestedCalls(k), LAMBDA c : c.payload = P2)

\* the inner emission has invoked the first n listeners that were registered
\* for its event when the body of the k-th invocation called emit, once
\* each and in order
InnerInvoked(k, n) ==
    /\ Len(InnerCalls(k)) = n
    /\ \A j \in 1..n :
          /\ InnerCalls(k)[j].l = log[k].reSnap[j]
          /\ InnerCalls(k)[j].idx = j
          /\ InnerCalls(k)[j].event = Target(log[k].l.fn)

\* C19 as claimed: the emission that a listener body starts has invoked all
\* the listeners of its snapshot once the activation that called the
\* listener goes on to its next listener, and once the host's emit call has
\* ended.
NestedEmitCompletes ==
    \A k \in 1..Len(log) :
        (Reemitted(k) /\ (Ended \/ EndOfNested(k) <= Len(log)))
           => InnerInvoked(k, Len(log[k].reSnap))

\* C19 (amended): emissions nest: the listeners invoked by the emission that
\* a listener body starts follow directly on that listener, in snapshot
\* order, ahead of the next listener of the outer emission; when the host's
\* emit call returns, every such inner emission has invoked its whole
\* snapshot before the outer emission went on.
NestedEmit ==
    /\ \A k \in 1..Len(log) :
          Reemitted(k) =>
             /\ Len(InnerCalls(k)) <= Len(log[k].reSnap)
             /\ InnerInvoked(k, Len(InnerCalls(k)))
    /\ status = "returned" =>
          \A k \in 1..Len(log) : Reemitted(k) => InnerInvoked(k, Len(log[k].reSnap))

\* emit("a", "p") has returned: re emitted "a" again with "q", both
\* listeners ran for "q", and then the outer emission invoked f1 for "p"
NestedEmitWitness ==
    /\ status = "returned"
    /\ emitted.event = "a"
    /\ emitted.snap = <<UserFn("re"), UserFn("f1")>>
    /\ Len(log) = 4
    /\ log[1].depth = 1 /\ log[1].l = UserFn("re") /\ log[1].payload = P1
    /\ log[2].depth = 2 /\ log[2].l = UserFn("re") /\ log[2].payload = P2
    /\ log[3].depth = 2 /\ log[3].l = UserFn("f1") /\ log[3].payload = P2
    /\ log[4].depth = 1 /\ log[4].l = UserFn("f1") /\ log[4].payload = P1

(***************************************************************************)
(* Asynchronous listeners (checked under SpecAsync).                       *)
(***************************************************************************)
\* C16 as claimed: when the promise returned by a listener invoked for
\* emit(eventId, payload) is rejected with e, the emitter delivers the
\* envelope {error: e, event: eventId, payload: payload} to the listeners of
\* the error event.
AsyncFailureFunneled ==
    [][\A i \in 1..Len(deferred) :
          (deferred[i].state = "pending" /\ deferred'[i].state = "rejected") =>
             /\ stack' # <<>>
             /\ stack'[1].event = TypedEventEmitterError
             /\ stack'[1].payload = ErrorEnvelope("boom", deferred[i].event,
                                                  deferred[i].payload)]_vars

\* C17: emit does not wait for the promises its listeners return: while the
\* call runs and when it returns none of them has been settled, and when it
\* returns every listener of its snapshot has been invoked, in order.
EmitDoesNotWait ==
    /\ status = "returned" => InvokedInOrder(Len(emitted.snap))
    /\ status \in {"emitting", "returned"} =>
          \A i \in 1..Len(deferred) : deferred[i].cur => deferred[i].state = "pending"

\* emit("a") has returned after invoking rej, whose promise is still pending,
\* and then f1
EmitDoesNotWaitWitness ==
    /\ status = "returned"
    /\ emitted.snap = <<UserFn("rej"), UserFn("f1")>>
    /\ Len(TopCalls) = 2
    /\ Len(deferred) = 1
    /\ deferred[1].cur
    /\ deferred[1].state = "pending"

(***************************************************************************)
(* Properties of off.                                                      *)
(***************************************************************************)
\* number of registrations of listener l in the sequence ls
Count(ls, l) == Cardinality({i \in 1..Len(ls) : ls[i] = l})

\* the onceListener closure number w is in no listener sequence
Absent(w) ==
    \A event \in DOMAIN listeners :
       \A i \in 1..Len(listeners[event]) : listeners[event][i].wid # w

\* C32 (checked under SpecOnce): an onceListener closure removes itself
\* before it calls the listener.  Once it has been invoked it is in no
\* listener sequence, also when the listener threw; it is in neither of the
\* snapshots an emit call made by the listener body or by the catch block
\* takes, so neither of those emissions invokes it again; and when the
\* host's emit call returns, what the listener threw has been delivered to
\* the listeners of the error event.
OnceRemovedBeforeBody ==
    /\ \A w \in 1..MaxOnce : onceCalls[w] >= 1 => Absent(w)
    /\ \A k \in 1..Len(log) :
          log[k].l.wid # 0 =>
             /\ Count(log[k].errSnap, log[k].l) = 0
             /\ Count(log[k].reSnap, log[k].l) = 0
             /\ \A j \in 1..Len(NestedCalls(k)) : NestedCalls(k)[j].l # log[k].l
             /\ (log[k].threw /\ status = "returned") => Funneled(k)

\* once("a", re) and on("a", f1): emit("a", "p") has returned; the body of
\* re emitted "a" again, and that emission invoked f1 alone
OnceRemovedBeforeBodyWitness ==
    /\ status = "returned"
    /\ emitted.event = "a"
    /\ Len(emitted.snap) = 2
    /\ emitted.snap[1].wid = 1 /\ emitted.snap[1].fn = "re"
    /\ emitted.snap[2] = UserFn("f1")
    /\ Len(log) = 3
    /\ log[1].l = emitted.snap[1] /\ log[1].depth = 1
    /\ log[2].l = UserFn("f1") /\ log[2].depth = 2 /\ log[2].payload = P2
    /\ log[3].l = UserFn("f1") /\ log[3].depth = 1 /\ log[3].payload = P1
    /\ onceCalls[1] = 1

(***************************************************************************)
(* Listeners that change the table during an emission (checked under       *)
(* SpecTable).                                                             *)
(***************************************************************************)
\* the invocations made so far by the host's emit call follow the array it
\* copied when it was called: the k-th is the k-th registration of that moment
FollowsSnapshot ==
    /\ Len(TopCalls) <= Len(emitted.snap)
    /\ \A k \in 1..Len(TopCalls) : TopCalls[k].l = emitted.snap[k]

\* the registration at position j of the host's emit call has been invoked
InvokedAt(j) == \E k \in 1..Len(TopCalls) : TopCalls[k].idx = j

\* C14 as claimed: a listener that a listener body registered for the event
\* while it was being emitted is not invoked by that emit call, and every
\* emit call of the event that ends afterwards has invoked it.
AddedInvokedByNextEmit ==
    /\ FollowsSnapshot
    /\ Ended => \A j \in 1..Len(emitted.snap) :
                   emitted.snap[j] = UserFn("g") => InvokedAt(j)

\* C14 (amended): a listener that a listener body registers for the event
\* being emitted goes to the end of the event's sequence and is not invoked
\* by the emit call in progress, which walks the copy it made at its start;
\* the next emit call of the event that returns invokes it.
AddedDuringEmit ==
    /\ [](FollowsSnapshot)
    /\ [](status = "returned" =>
             \A j \in 1..Len(emitted.snap) :
                emitted.snap[j] = UserFn("g") => InvokedAt(j))
    /\ [][(stack # <<>> /\ stack' # <<>> /\ Regs(listeners') > Regs(listeners)) =>
             /\ get(listeners', Top.event) = Append(get(listeners, Top.event), UserFn("g"))
             /\ emitted' = emitted
             /\ \A d \in 1..Len(stack) : stack'[d].snap = stack[d].snap]_vars

\* emit("a") has returned after invoking add and then the listener g that
\* an earlier emit("a") had added; the call added a second g, which it did
\* not invoke
AddedDuringEmitWitness ==
    /\ status = "returned"
    /\ emitted.event = "a"
    /\ emitted.snap = <<UserFn("add"), UserFn("g")>>
    /\ Len(TopCalls) = 2
    /\ get(listeners, "a") = <<UserFn("add"), UserFn("g"), UserFn("g")>>

\* a listener body of the host's emit call has called off for the listener
\* at position j of its snapshot before that position was reached
RemovedBefore(j) ==
    \E k \in 1..Len(TopCalls) :
        /\ TopCalls[k].idx < j
        /\ Body(TopCalls[k].l.fn) = "removes"
        /\ Target(TopCalls[k].l.fn) = emitted.event
        /\ emitted.snap[j] = UserFn("f1")

\* a listener body has called off(event, f1) during the host's emit(event)
RemovedDuring ==
    \E k \in 1..Len(log) :
        /\ Body(log[k].l.fn) = "removes"
        /\ Target(log[k].l.fn) = emitted.event

\* C15 as claimed: a listener of the snapshot that an earlier listener
\* removed during the emission has been invoked once the emit call has
\* ended, and is no longer registered for the event.
RemovedStillInvokedAlways ==
    /\ Ended => \A j \in 1..Len(emitted.snap) : RemovedBefore(j) => InvokedAt(j)
    /\ (Ended /\ RemovedDuring) => Count(get(listeners, emitted.event), UserFn("f1")) = 0

\* C15 (amended): a listener of the snapshot that an earlier listener removed
\* during the emission is still invoked by that emit call, if the call
\* returns; it is no longer registered when the call has ended, so that later
\* emit calls do not invoke it unless it is registered again.
RemovedDuringEmit ==
    /\ status = "returned" =>
          \A j \in 1..Len(emitted.snap) : RemovedBefore(j) => InvokedAt(j)
    /\ (Ended /\ RemovedDuring) => Count(get(listeners, emitted.event), UserFn("f1")) = 0

\* emit("a") has returned after invoking rem, which removed f1, and then f1
RemovedDuringEmitWitness ==
    /\ status = "returned"
    /\ emitted.event = "a"
    /\ emitted.snap = <<UserFn("rem"), UserFn("f1"), UserFn("f1")>>
    /\ Len(TopCalls) = 3
    /\ get(listeners, "a") = <<UserFn("rem")>>

\* C12 as claimed (checked under SpecEmit): a call off(event, l) that finds l
\* registered for the event removes exactly one registration of l, so that
\* of k registrations k - 1 remain.
OffRemovesOneRegistration ==
    [][(lastOff' # NoOff /\ lastOff'.present /\ listeners' # listeners)
       => Count(get(listeners', lastOff'.event), lastOff'.listener)
             = Count(get(listeners, lastOff'.event), lastOff'.listener) - 1]_vars

\* s can be obtained from t by deleting entries of t
RECURSIVE IsSubsequence(_, _)
IsSubsequence(s, t) ==
    IF s = <<>> THEN TRUE
    ELSE IF t = <<>> THEN FALSE
    ELSE IF Head(s) = Head(t) THEN IsSubsequence(Tail(s), Tail(t))
    ELSE IsSubsequence(s, Tail(t))

\* C13 (checked under SpecEmit): a call off(event, l) for an event that has
\* no listeners, was never used with the emitter, or does not have l
\* registered, leaves every listener sequence as it was; in every case off
\* keeps each registration of the other listeners and their relative order,
\* and leaves the other events alone.
OffAbsentIsNoOp ==
    [][lastOff' # NoOff =>
          LET ev == lastOff'.event
              l == lastOff'.listener
              old == get(listeners, ev)
              new == get(listeners', ev)
          IN /\ ~lastOff'.present =>
                   \A event \in Events : get(listeners', event) = get(listeners, event)
             /\ \A event \in Events \ {ev} : get(listeners', event) = get(listeners, event)
             /\ IsSubsequence(new, old)
             /\ \A i \in 1..Len(old) : old[i] # l => Count(new, old[i]) = Count(old, old[i])]_vars

\* off("a", thr) was called on an emitter that never used the event "a",
\* while two listeners stay registered on the error event
OffAbsentIsNoOpWitness ==
    /\ lastOff.event = "a"
    /\ lastOff.listener = UserFn("thr")
    /\ ~lastOff.used
    /\ ~lastOff.present
    /\ get(listeners, "a") = <<>>
    /\ get(listeners, TypedEventEmitterError) = <<UserFn("f1"), UserFn("thr")>>

(***************************************************************************)
(* Properties of the bridge (checked under SpecBridge).                    *)
(***************************************************************************)
\* the bridge's listener is registered for some event
BridgeRegistered ==
    \E event \in DOMAIN listeners : Count(listeners[event], BridgeListener("s1")) > 0

\* C20 as claimed: a sequence made with a signal that was already aborted
\* never yields a value, never has its listener registered, and never
\* leaves a pull waiting: its first pull ends at once with {done: true}.
AbortedAtCallIsEmpty ==
    (gen["s1"].pc # "none" /\ gen["s1"].atCall) =>
       /\ gen["s1"].received = <<>>
       /\ ~BridgeRegistered
       /\ ~gen["s1"].pull
       /\ gen["s1"].pc \in {"start", "done"}

(***************************************************************************)
(* Properties of one sequence and its consumer (checked under SpecPulls).  *)
(***************************************************************************)
\* the payloads of a part of the history of emit calls
PayloadsOf(entries) == [i \in 1..Len(entries) |-> entries[i].payload]

IsEarly(entry) == entry.early

\* the payloads emitted after on() was called and before the first pull
EarlyPayloads(b) == PayloadsOf(SelectSeq(b.sent, IsEarly))

\* C21 as claimed: when two payloads A and B were emitted on the event after
\* the sequence was made and before any pull, and the signal is not aborted,
\* the first pull yields A and the second pull yields B.
EarlyEmitsYieldedInOrder ==
    LET b == gen["s1"]
        early == EarlyPayloads(b)
    IN (Len(early) >= 2 /\ ~b.aborted /\ ~b.stopped) =>
          \A i \in 1..2 : b.pulls >= i =>
             /\ Len(b.received) >= i
             /\ b.received[i] = early[i]

\* C22: when the signal is aborted while a pull is suspended (the buffer is
\* then empty), the pull is resolved by the abort, it is handed no value, and
\* it completes with {done: true}: the consumer receives nothing more and the
\* pull does not stay suspended.
SuspendedPullEndsOnAbort ==
    /\ [](gen["s1"].abortAt = "awaiting" =>
             /\ gen["s1"].pc \in {"resumable", "done"}
             /\ gen["s1"].result.kind # "value"
             /\ gen["s1"].pull \/ gen["s1"].ended)
    /\ [][gen["s1"].abortAt = "awaiting" =>
             gen["s1"].received' = gen["s1"].received]_vars
    /\ (gen["s1"].abortAt = "awaiting" ~> (gen["s1"].ended /\ ~gen["s1"].pull))

\* a pull was suspended, the signal was aborted, and the pull has completed
\* with {done: true} after the consumer had received a payload
SuspendedPullEndsOnAbortWitness ==
    /\ gen["s1"].abortAt = "awaiting"
    /\ gen["s1"].ended
    /\ ~gen["s1"].pull
    /\ ~gen["s1"].stopped
    /\ gen["s1"].received # <<>>

\* the state of a sequence, without the history kept for the properties
StateOf(b) ==
    <<b.pc, b.observer, b.buffer, b.waiters, b.result, b.pull, b.received, b.ended>>

\* the listener of sequence g is in the listener table
Registered(g) ==
    \E event \in DOMAIN listeners : Count(listeners[event], gen[g].listener) > 0

\* the abort handler of the "resolvers" version has run: it calls cleanup()
\* itself, whether or not the generator returns afterwards
AbortHandlerCleaned(b) ==
    b.variant = "resolvers" /\ b.abortAt \in {"yielded", "awaiting", "resumable"}

\* C23: once the generator has returned, whichever way (the signal aborted
\* during a pull or between pulls, or the consumer stopping), its listener
\* is in no listener sequence, its abort handler is detached from the
\* signal, and no later step, an emit on its event included, changes its
\* state.  In the "resolvers" version the listener and the handler are
\* gone as soon as the abort handler has run, and no emit made after the
\* abort finds the listener.
TerminatedIsCleanedUp ==
    /\ [](gen["s1"].pc = "done" => ~Registered("s1") /\ ~gen["s1"].observer)
    /\ [][gen["s1"].pc = "done" => StateOf(gen["s1"])' = StateOf(gen["s1"])]_vars
    /\ [](AbortHandlerCleaned(gen["s1"]) =>
             /\ ~Registered("s1")
             /\ ~gen["s1"].observer
             /\ \A i \in 1..Len(gen["s1"].sent) :
                   gen["s1"].sent[i].aborted => ~gen["s1"].sent[i].registered)

\* the consumer stopped after a payload, the host emitted on the event once
\* more, and the emit call has returned
TerminatedIsCleanedUpWitness ==
    /\ gen["s1"].pc = "done"
    /\ gen["s1"].stopped
    /\ gen["s1"].received # <<>>
    /\ Len(gen["s1"].sent) >= 2
    /\ ~gen["s1"].sent[Len(gen["s1"].sent)].registered
    /\ status = "returned"
    /\ emitted.event = gen["s1"].event

IsBeforeAbort(entry) == ~entry.aborted

\* the payloads emitted on the event before the signal was aborted
PayloadsBeforeAbort(b) == PayloadsOf(SelectSeq(b.sent, IsBeforeAbort))

\* C24 as claimed: whatever the order of the calls, the consumer receives no
\* payload that was emitted after the signal was aborted: what it received
\* is drawn, in order, from the payloads emitted before the abort.
NothingYieldedFromAfterAbort ==
    IsSubsequence(gen["s1"].received, PayloadsBeforeAbort(gen["s1"]))

\* s is the first part of t
IsPrefix(s, t) == Len(s) <= Len(t) /\ SubSeq(t, 1, Len(s)) = s

\* C25 as claimed: payloads are emitted, the signal is aborted, further
\* payloads are emitted, and only then the consumer iterates: its pulls
\* yield the payloads emitted before the abort, in order, none of them is
\* left suspended, and when the sequence has ended the consumer has received
\* exactly those payloads.
IteratingAfterAbortYieldsEarlier ==
    LET b == gen["s1"]
        before == PayloadsBeforeAbort(b)
    IN (/\ b.abortAt = "start"
        /\ ~b.atCall
        /\ before # <<>>
        /\ Len(b.sent) > Len(before)
        /\ \A i \in 1..Len(b.sent) : b.sent[i].early
        /\ b.pulls >= 1
        /\ ~b.stopped)
       => /\ b.pc # "awaiting"
          /\ IsPrefix(b.received, before)
          /\ b.ended => b.received = before

\* C26: the promise a suspended pull awaits is resolved exactly once, by the
\* listener or by the abort handler: while the pull waits nobody has resolved
\* it and one resolver is at hand; once it is resolved no resolver is left,
\* what it was resolved with no longer changes, and every pull of the
\* consumer gets exactly one result.
ResumedExactlyOnce ==
    /\ [](/\ gen["s1"].resolutions <= 1
          /\ gen["s1"].pc = "awaiting" =>
                gen["s1"].resolutions = 0 /\ gen["s1"].waiters = 1
          /\ gen["s1"].pc = "resumable" =>
                gen["s1"].resolutions = 1 /\ gen["s1"].waiters = 0
          /\ gen["s1"].pulls = Len(gen["s1"].received)
                                 + (IF gen["s1"].pull THEN 1 ELSE 0)
                                 + (IF gen["s1"].ended /\ ~gen["s1"].stopped
                                    THEN 1 ELSE 0))
    /\ [][gen["s1"].pc = "resumable" /\ gen["s1"].pc' = "resumable" =>
             gen["s1"].result' = gen["s1"].result]_vars

\* a payload resolved the suspended pull, and the signal was aborted before
\* the pull went on
ResumedExactlyOnceWitness ==
    /\ gen["s1"].pc = "resumable"
    /\ gen["s1"].abortAt = "resumable"
    /\ gen["s1"].resolutions = 1
    /\ gen["s1"].result.kind \in {"value", "wake"}

\* a pull waits for a promise that nothing can resolve any more: the signal
\* is aborted, the abort handler is not attached, and the listener is not
\* registered
Stuck(g) ==
    /\ gen[g].pull
    /\ gen[g].pc = "awaiting"
    /\ gen[g].aborted
    /\ ~gen[g].observer
    /\ ~Registered(g)

\* C28 as claimed: once the signal is aborted no pull suspends forever,
\* whether it was suspended when the abort came or is issued afterwards.
NoPullStuckAfterAbort == ~Stuck("s1")

\* an emit call made while the listener was registered and the signal was
\* not aborted
IsLive(entry) == entry.registered /\ ~entry.aborted

LivePayloads(b) == PayloadsOf(SelectSeq(b.sent, IsLive))

\* the payloads the sequence has taken: those its consumer received, the one
\* handed to the pull that is about to go on, and those still buffered
Taken(b) ==
    b.received \o (IF b.result.kind = "value" THEN <<b.result.value>> ELSE <<>>)
               \o b.buffer

\* C29: while the signal is not aborted, whenever no emit call is in
\* progress the values the consumer received, followed by the value handed
\* to its waiting pull and by the buffer, are exactly the payloads emitted
\* while the listener was registered, in the order of the emit calls: none is
\* lost, none is duplicated, none overtakes another.  A pull suspends only
\* when the buffer is empty, so a consumer that keeps pulling receives them
\* all in that order.
YieldsFollowEmits ==
    /\ (Idle /\ ~gen["s1"].aborted) => Taken(gen["s1"]) = LivePayloads(gen["s1"])
    /\ (gen["s1"].pc = "awaiting" /\ ~gen["s1"].aborted) => gen["s1"].buffer = <<>>

\* the consumer received two different payloads: the first was handed to its
\* suspended pull, the second was buffered and yielded by the next pull
YieldsFollowEmitsWitness ==
    /\ ~gen["s1"].aborted
    /\ Len(gen["s1"].received) = 2
    /\ gen["s1"].received[1] # gen["s1"].received[2]
    /\ Len(gen["s1"].sent) = 2
    /\ gen["s1"].sent[1].waiting
    /\ gen["s1"].sent[2].registered
    /\ ~gen["s1"].sent[2].waiting

\* C30 as claimed: a payload emitted while a pull was suspended and the
\* signal was not aborted is the value that pull yields, whatever happens
\* between the emit and the moment the pull goes on (an abort included):
\* once the emit call has returned either the pull is still about to go on,
\* or the consumer has received the payload as the result of that pull.
WaitingPullYieldsEmitted ==
    LET b == gen["s1"]
    IN \A i \in 1..Len(b.sent) :
          (b.sent[i].waiting /\ ~b.sent[i].aborted /\ Idle) =>
             IF Len(b.received) >= b.sent[i].pos
             THEN b.received[b.sent[i].pos] = b.sent[i].payload
             ELSE b.pc = "resumable"

\* C31: a sequence never has more than one pending waiter, and it has one
\* exactly while a pull of its consumer is suspended.
AtMostOneWaiter ==
    /\ gen["s1"].waiters <= 1
    /\ gen["s1"].waiters = 1 <=> gen["s1"].pc = "awaiting"
    /\ gen["s1"].pc = "awaiting" => gen["s1"].pull

\* a pull is suspended, with one waiter, after the consumer received a payload
AtMostOneWaiterWitness ==
    /\ gen["s1"].waiters = 1
    /\ gen["s1"].pc = "awaiting"
    /\ gen["s1"].received # <<>>
    /\ gen["s1"].pulls >= 2

\* C34: a waiter exists only while the buffer is empty, so when the listener
\* of the sequence receives a payload it hands it to a waiter only if no
\* payload is buffered: a payload handed over directly never overtakes a
\* buffered one.
HandOffOnlyWhenBufferEmpty ==
    /\ [](gen["s1"].waiters > 0 => gen["s1"].buffer = <<>>)
    /\ [][(gen["s1"].result.kind # "value" /\ gen["s1"].result'.kind = "value") =>
             /\ gen["s1"].waiters = 1
             /\ gen["s1"].buffer = <<>>
             /\ gen["s1"].buffer' = <<>>]_vars

\* the listener handed a payload to the waiter of a suspended pull after the
\* consumer had received an earlier payload; the buffer is empty
HandOffOnlyWhenBufferEmptyWitness ==
    /\ gen["s1"].pc = "resumable"
    /\ gen["s1"].result.kind = "value"
    /\ gen["s1"].buffer = <<>>
    /\ Len(gen["s1"].received) = 1
    /\ gen["s1"].sent[Len(gen["s1"].sent)].waiting
    /\ Idle

(***************************************************************************)
(* Properties of two sequences on one event (checked under SpecTwo).       *)
(***************************************************************************)
\* C27: two sequences made for the same event of the same emitter do not
\* interfere.  Whenever no emit call is in progress, each has taken, in
\* order, every payload emitted while its own listener was registered and
\* its own signal was not aborted, whatever the other one did; and a step that is not a step of a sequence (the other
\* one returning, being stopped or being aborted included) leaves that
\* sequence's listener where it is.
TwoSequencesIndependent ==
    /\ [](Idle => \A g \in Gens :
                     ~gen[g].aborted => Taken(gen[g]) = LivePayloads(gen[g]))
    /\ [][\A g \in Gens : gen[g]' = gen[g] =>
             get(listeners, "a")' = get(listeners, "a")
             \/ Count(get(listeners, "a")', gen[g].listener)
                   = Count(get(listeners, "a"), gen[g].listener)]_vars

\* both sequences took a payload, the first one was then aborted or stopped
\* and has returned, and the second one took a later payload that the first
\* one did not
TwoSequencesIndependentWitness ==
    /\ gen["s1"].pc = "done"
    /\ gen["s1"].received # <<>>
    /\ ~gen["s2"].aborted
    /\ Len(gen["s2"].received) = 2
    /\ Len(gen["s1"].received) = 1
    /\ Count(get(listeners, "a"), gen["s2"].listener) = 1

(***************************************************************************)
(* Properties of a sequence beside other listeners (checked under          *)
(* SpecBeside).                                                            *)
(***************************************************************************)
\* the registrations for the event other than the listener of sequence g
Others(map, event, g) == filter(get(map, event), gen[g].listener)

\* C35: a step in which the sequence returns, or in which its listener is
\* removed, removes nothing else: for every event the other registrations
\* are the same, in the same order, before and after the step, and
\* afterwards the listener of the sequence is registered nowhere.
TerminationRemovesOwnListenerOnly ==
    [][(\/ gen["s1"].pc # "done" /\ gen["s1"].pc' = "done"
        \/ Registered("s1") /\ ~Registered("s1")') =>
          /\ \A event \in Events :
                Others(listeners', event, "s1") = Others(listeners, event, "s1")
          /\ ~Registered("s1")']_vars

\* the sequence has returned after its consumer received a payload; two
\* other listeners are registered for its event and one for the other event
TerminationRemovesOwnListenerOnlyWitness ==
    /\ gen["s1"].pc = "done"
    /\ gen["s1"].received # <<>>
    /\ get(listeners, gen["s1"].event) = <<UserFn("f1"), UserFn("f1")>>
    /\ \E event \in Events :
          event # gen["s1"].event /\ get(listeners, event) = <<UserFn("f1")>>

(***************************************************************************)
(* Properties of off beside once (checked under SpecOnceOff).              *)
(***************************************************************************)
\* the onceListener closures in an array of listeners
OnceListeners(ls) == SelectSeq(ls, LAMBDA l : l.wid # 0)

\* the onceListener closure w is registered in the Map
Stored(map, w) ==
    \E event \in DOMAIN map : \E i \in 1..Len(map[event]) : map[event][i] = w

\* C36: off(event, l) with the function l that was given to once(event, l)
\* cancels nothing: the Map stores the onceListener closure, which off leaves
\* where it is.  A onceListener closure leaves the Map only when it is invoked
\* or when the closure that once returned is called, and an emit of its event
\* invokes the listener of every onceListener closure registered at its start.
OffWithOriginalKeepsOnce ==
    [][/\ lastOff' # NoOff =>
             \A event \in Events :
                 OnceListeners(get(listeners', event)) = OnceListeners(get(listeners, event))
       /\ \A wid \in 1..MaxOnce, event \in Events :
             LET w == OnceListener(wid, event, "f1")
             IN Stored(listeners, w) /\ ~Stored(listeners', w) =>
                   \/ onceCalls'[wid] = onceCalls[wid] + 1
                   \/ lastUnsub' = Unsubscribe(event, w)
       /\ status # "returned" /\ status' = "returned" =>
             \A i \in 1..Len(emitted.snap) :
                 emitted.snap[i].wid # 0 =>
                    /\ onceCalls'[emitted.snap[i].wid] = 1
                    /\ \E k \in 1..Len(log') : log'[k].l = emitted.snap[i]]_vars

\* off("a", f1) was called after once("a", f1), found nothing to remove, and
\* the onceListener closure is still registered beside nothing else
OffWithOriginalKeepsOnceWitness ==
    /\ lastOff = [event |-> "a", listener |-> UserFn("f1"),
                  used |-> TRUE, present |-> FALSE]
    /\ get(listeners, "a") = <<OnceListener(1, "a", "f1")>>
    /\ onceCalls[1] = 0
(***************************************************************************)
(* Properties of events and emitters beside each other (checked under      *)
(* SpecApart).                                                             *)
(***************************************************************************)
\* the events, of either emitter, whose array a step changes
Changed == {e \in Keys : get(listeners', e) # get(listeners, e)}

\* the emitter that holds the array kept under a key
EmitterOf(e) == IF e = Second THEN 2 ELSE 1

\* C37 as stated: emit(A, p) invokes no listener of an event other than A
InvokesOnlyListenersOfEvent ==
    \A k \in 1..Len(log) : log[k].event = emitted.event

\* C37: events and emitters are isolated.  The forEach of emit(A, p) on an
\* emitter walks the listeners registered for A on that emitter, and no
\* listener of another emitter is invoked while it runs; a listener of
\* another event of the same emitter is invoked only by a nested emit call,
\* which here is the emission to the error event after a listener threw.
\* A call of on, once or off changes the array of one event of one emitter
\* at most, for off the one it names, and a call of emit changes none.
EventsAndEmittersIsolated ==
    [][/\ \A k \in 1..Len(log') :
             /\ EmitterOf(log'[k].event) = EmitterOf(emitted'.event)
             /\ log'[k].depth = 1 =>
                    /\ log'[k].event = emitted'.event
                    /\ log'[k].l = emitted'.snap[log'[k].idx]
             /\ log'[k].depth > 1 =>
                    /\ log'[k].event = TypedEventEmitterError
                    /\ \E j \in 1..(k - 1) : log'[j].threw
       /\ Cardinality(Changed) <= 1
       /\ stack # <<>> => Changed \subseteq {Top.event}
       /\ stack = <<>> /\ stack' # <<>> => Changed = {}
       /\ lastOff' # NoOff => Changed \subseteq {lastOff'.event}]_vars

\* emit("a", p) on the first emitter has returned: its listener threw and the
\* listener of the error event was invoked, while the listener that the
\* second emitter holds for "a" was not
EventsAndEmittersIsolatedWitness ==
    /\ status = "returned"
    /\ emitted.event = "a"
    /\ get(listeners, Second) = <<UserFn("f1")>>
    /\ get(listeners, TypedEventEmitterError) = <<UserFn("f1")>>
    /\ Len(log) = 2
    /\ log[1].threw
    /\ log[2].event = TypedEventEmitterError
(***************************************************************************)
(* Properties of an emitter without error listeners (checked under         *)
(* SpecThrow).                                                             *)
(***************************************************************************)
\* C38: while no listener is registered on the error event, what a listener
\* throws is dropped: the emit call neither throws nor exhausts the stack,
\* the listeners of its snapshot are invoked in order, the throwing ones
\* included, and nothing else is; when it has returned all of them have been
\* invoked.  No step of the emit call changes the Map, and an emit of an
\* event without listeners invokes nothing.
DroppedWithoutErrorListener ==
    [][/\ get(listeners, TypedEventEmitterError) = <<>>
        /\ (stack # <<>> \/ stack' # <<>>)
        => /\ listeners' = listeners
           /\ status' \in {"emitting", "returned"}
           /\ Len(log') <= Len(emitted'.snap)
           /\ \A k \in 1..Len(log') :
                 /\ log'[k].depth = 1
                 /\ log'[k].l = emitted'.snap[k]
           /\ stack' = <<>> =>
                 /\ status' = "returned"
                 /\ Len(log') = Len(emitted'.snap)]_vars

\* emit("a", p) has returned: the first listener threw, the second was
\* invoked after it, and the error event has no listener
DroppedWithoutErrorListenerWitness ==
    /\ status = "returned"
    /\ emitted.event = "a"
    /\ get(listeners, TypedEventEmitterError) = <<>>
    /\ get(listeners, "a") = <<UserFn("thr"), UserFn("f1")>>
    /\ Len(log) = 2
    /\ log[1].threw
    /\ ~log[2].threw
(***************************************************************************)
(* Properties of emissions whose error listeners do not throw (checked     *)
(* under SpecFinish).                                                      *)
(***************************************************************************)
\* no listener registered on the error event throws
ErrorListenersReturn ==
    \A i \in 1..Len(get(listeners, TypedEventEmitterError)) :
        Body(get(listeners, TypedEventEmitterError)[i].fn) # "throw"

\* the invocations that the activation of the k-th invocation makes for what
\* it threw are the listeners of the error event, each once, in order
ErrorListenersOnce(k) ==
    /\ Len(NestedCalls(k)) = Len(log[k].errSnap)
    /\ \A j \in 1..Len(NestedCalls(k)) : NestedCalls(k)[j].l = log[k].errSnap[j]

\* C39: when no listener body calls emit and no listener of the error event
\* throws, an emit call ends by returning; it has then invoked every listener
\* of its snapshot once, in order, and for every one that threw every listener
\* of the error event once; the emit activations are never nested deeper than
\* 2, the emitted event's and the error event's.
EmitTerminatesWithinDepthTwo ==
    /\ [](ErrorListenersReturn =>
            /\ Len(stack) <= 2
            /\ status # "RangeError"
            /\ \A k \in 1..Len(log) : log[k].depth <= 2
            /\ status = "returned" =>
                  /\ Len(TopCalls) = Len(emitted.snap)
                  /\ \A k \in 1..Len(TopCalls) : TopCalls[k].l = emitted.snap[k]
                  /\ \A k \in 1..Len(log) :
                        /\ log[k].depth = 1 /\ log[k].threw => ErrorListenersOnce(k)
                        /\ log[k].depth = 1 /\ ~log[k].threw => NestedCalls(k) = <<>>)
    /\ (ErrorListenersReturn /\ status = "emitting") ~> (status = "returned")

\* the second activation of emit, of the error event, has invoked the
\* listener of the error event, which returned, and the first activation has
\* a listener left to invoke
EmitTerminatesWithinDepthTwoWitness ==
    /\ ErrorListenersReturn
    /\ Len(stack) = 2
    /\ Top.event = TypedEventEmitterError
    /\ Top.snap = <<UserFn("f1")>>
    /\ Top.i = 2
    /\ stack[1].event = "a"
    /\ stack[1].i <= Len(stack[1].snap)
====
